---- MODULE Spec2Model ----
(***************************************************************************)
(* Model of ditto's docx_to_pdf (src/src/lib.rs): a linear sequence of     *)
(* path checks, one create_dir_all, one run of the external converter      *)
(* "soffice", an existence check of the generated PDF and a rename.        *)
(*                                                                         *)
(* A file name is the sequence of its dot-separated segments:              *)
(*   "report.docx" = <<"report","docx">>, ".docx" = <<"","docx">>,         *)
(*   "a." = <<"a","">>, "report" = <<"report">>.                           *)
(* A path is [abs, comps]: whether it starts at the root, and its          *)
(* components (file names).  The file system is the set `dirs` of          *)
(* directories and the function `files` from regular files to contents,    *)
(* both keyed by absolute component sequences.                             *)
(***************************************************************************)
EXTENDS Naturals, Sequences, FiniteSets

VARIABLES dirs, files, dirs0, files0, input_path, output_path,
          pc, result, status, wrote, created, trace

vars == <<dirs, files, dirs0, files0, input_path, output_path,
          pc, result, status, wrote, created, trace>>

\* ------------------------------------------------------------- bounds
\* Longest file name drawn for the input, in dot-separated segments.
MaxSegs == 3
\* Largest exit code the converter reports.
MaxExit == 2

\* ------------------------------------------------------------- names
Procs == {1, 2}

Segs == {"report", "v2", "docx"}

Front(s) == SubSeq(s, 1, Len(s) - 1)

Last(s) == s[Len(s)]

SeqsUpTo(S, n) == UNION {[1..k -> S] : k \in 1..n}

\* "." and ".." are components, not file names.
CurDirName == <<"", "">>

ParentDirName == <<"", "", "">>

\* Names of up to MaxSegs segments, and the names ".docx" and "report.".
InputNames == SeqsUpTo(Segs, MaxSegs) \cup {<<"", "docx">>, <<"report", "">>}

\* A segment that is not valid UTF-8.
BadSeg == "\\xFF"

D == <<"D">>

out == <<"out">>

sub == <<"sub">>

bad == <<BadSeg>>

Abs(cs) == [abs |-> TRUE, comps |-> cs]

Rel(cs) == [abs |-> FALSE, comps |-> cs]

\* The working directory of the process.
Cwd == <<D>>

InputPaths ==
    {Abs(<<D, n>>) : n \in InputNames}
        \cup {Abs(<<D, out>>), Abs(<<D, <<BadSeg, "docx">>>>),
              Rel(<<<<"report", "docx">>>>)}

OutputPaths ==
    {Abs(<<D, out, <<"final", "pdf">>>>), Abs(<<D, out, <<"report", "pdf">>>>),
     Abs(<<D, out>>), Abs(<<>>), Rel(<<>>), Rel(<<<<"report", "pdf">>>>),
     Abs(<<D, out, sub, <<"final", "pdf">>>>), Abs(<<D, bad, <<"final", "pdf">>>>)}

\* ------------------------------------------------------------- std::path
\* Path::parent: None for the root and for the empty path.
HasParent(p) == Len(p.comps) > 0

Parent(p) == [abs |-> p.abs, comps |-> Front(p.comps)]

\* Path::join of a relative one-component path.  Paths compare and split by
\* components, and a "." that is not the whole path is no component.
Join(p, name) ==
    IF name = CurDirName /\ (p.abs \/ p.comps # <<>>) THEN p
    ELSE [abs |-> p.abs, comps |-> Append(p.comps, name)]

\* Path::file_name: None when the path has no final normal component.
HasFileName(p) ==
    Len(p.comps) > 0 /\ Last(p.comps) \notin {CurDirName, ParentDirName}

\* rsplit_file_at_dot, first half: the name before its last dot; the whole
\* name when it has no dot or only a leading one.
StemOf(name) ==
    IF Len(name) = 1 THEN name
    ELSE IF Front(name) = <<"">> THEN name
    ELSE Front(name)

\* Path::with_extension(ext) with a non-empty ext: the file name is cut
\* back to its own file_stem, then "." and ext are appended.
WithExtension(p, ext) ==
    IF ~HasFileName(p) THEN p
    ELSE Join(Parent(p), Append(StemOf(Last(p.comps)), ext))

\* Path::to_str: Some only when every byte is valid UTF-8.
IsUtf8(p) == \A i \in 1..Len(p.comps) : \A j \in 1..Len(p.comps[i]) : p.comps[i][j] # BadSeg

\* ------------------------------------------------------------- file system
\* What the kernel resolves a path to; the empty path resolves to nothing.
RECURSIVE Walk(_, _)
Walk(at, cs) ==
    IF cs = <<>> THEN at
    ELSE Walk(IF Head(cs) = CurDirName THEN at
              ELSE IF Head(cs) = ParentDirName
                   THEN (IF at = <<>> THEN at ELSE Front(at))
              ELSE Append(at, Head(cs)),
              Tail(cs))

Resolve(p) == Walk(IF p.abs THEN <<>> ELSE Cwd, p.comps)

IsEmptyPath(p) == ~p.abs /\ p.comps = <<>>

PathIsDir(ds, p) == ~IsEmptyPath(p) /\ Resolve(p) \in ds

PathIsFile(fs, p) == ~IsEmptyPath(p) /\ Resolve(p) \in DOMAIN fs

PathExists(ds, fs, p) == PathIsDir(ds, p) \/ PathIsFile(fs, p)

Prefixes(cs) == {SubSeq(cs, 1, k) : k \in 0..Len(cs)}

Docx == [src |-> "docx", run |-> 0]

Stale == [src |-> "stale", run |-> 0]

Pdf(p) == [src |-> "soffice", run |-> p]

IsPrefix(a, b) == Len(a) <= Len(b) /\ SubSeq(b, 1, Len(a)) = a

\* q, a path at or below `from`, moved with it to `to`.
Rebase(q, from, to) == to \o SubSeq(q, Len(from) + 1, Len(q))

\* create_dir in place of create_dir_all: only the last directory is made.
CreateDirAll_LeafOnly(ds, r) == ds \cup {r}

\* std::fs::create_dir_all(path) when no mkdir fails: every missing
\* ancestor of the path and the path itself become directories.
CreateDirAll(ds, r) == ds \cup Prefixes(r)

\* create_dir_all stopped by a failing mkdir below depth m: the ancestors
\* made before the failure stay.
CreateDirPartial(ds, r, m) == ds \cup {q \in Prefixes(r) : Len(q) <= m}

\* The mkdir that cannot succeed: a component of the path is a regular file.
BlockedByFile(fs, r) == \E q \in Prefixes(r) : q \in DOMAIN fs

\* rename(2) of src to dst: the errno it fails with, or "" when it moves.
RenameErrno(ds, fs, src, dst) ==
    LET rs == Resolve(src)
        rd == Resolve(dst)
    IN  IF IsEmptyPath(src) \/ IsEmptyPath(dst) THEN "ENOENT"
        ELSE IF rs \notin ds /\ rs \notin DOMAIN fs THEN "ENOENT"
        ELSE IF rd = <<>> THEN "EBUSY"
        ELSE IF Front(rd) \notin ds THEN "ENOENT"
        ELSE IF rs \in DOMAIN fs /\ rd \in ds THEN "EISDIR"
        ELSE IF rs \in ds /\ rd \in DOMAIN fs THEN "ENOTDIR"
        ELSE IF rs \in ds /\ rs # rd /\ IsPrefix(rs, rd) THEN "EINVAL"
        ELSE IF rs \in ds /\ rd \in ds /\ rs # rd
                /\ \E q \in ds \cup DOMAIN fs : q # rd /\ IsPrefix(rd, q)
             THEN "ENOTEMPTY"
        ELSE ""

\* The files after a successful rename: a file moves over whatever file
\* was at dst; a directory moves with everything below it.
RenameFiles(ds, fs, src, dst) ==
    LET rs == Resolve(src)
        rd == Resolve(dst)
        moved == {q \in DOMAIN fs : IsPrefix(rs, q)}
        kept == DOMAIN fs \ moved
        target == {Rebase(q, rs, rd) : q \in moved}
    IN  IF rs = rd THEN fs
        ELSE [q \in kept \cup target |->
                IF q \in target
                THEN fs[CHOOSE m \in moved : Rebase(m, rs, rd) = q]
                ELSE fs[q]]

RenameDirs(ds, fs, src, dst) ==
    LET rs == Resolve(src)
        rd == Resolve(dst)
        moved == {q \in ds : IsPrefix(rs, q)}
    IN  IF rs = rd THEN ds
        ELSE (ds \ moved) \cup {Rebase(q, rs, rd) : q \in moved}

\* ------------------------------------------------------------- errors
\* The error values docx_to_pdf returns: the message of a string error, or
\* "io::Error" with the errno of a propagated std::io::Error; `exit` is the
\* Option<i32> printed into the message of a failed conversion.
NoCode == MaxExit + 1

ExitStatuses == 0..NoCode

Err(kind) == [kind |-> kind, exit |-> NoCode, os |-> ""]

InputNotFound == Err("Input file not found")

InputNotAFile == Err("Input path is not a file")

OutputIsDirectory == Err("Output path is a directory")

InvalidOutputPath == Err("Output path has no parent directory")

InvalidOutputDirectory == Err("Invalid output directory")

InvalidInputPath == Err("Invalid input path")

NoStem == Err("Input file has no stem")

OutputNotProduced == Err("Generated PDF not found at")

ConversionFailed(code) ==
    [kind |-> "Conversion failed with exit code", exit |-> code, os |-> ""]

IoError(errno) == [kind |-> "io::Error", exit |-> NoCode, os |-> errno]

Ok == Err("Ok")

Pending == Err("")

\* ------------------------------------------------------------- docx_to_pdf
\* The existence check left out.
InputMissing_Unchecked(ds, fs, in) == FALSE

\* if !input_path.exists()
InputMissing(ds, fs, in) == ~PathExists(ds, fs, in)

\* The file check left out.
InputNotFile_Unchecked(ds, fs, in) == FALSE

\* if !input_path.is_file()
InputNotFile(ds, fs, in) == ~PathIsFile(fs, in)

\* is_file in place of is_dir.
OutputIsDir_IsFile(ds, fs, o) == PathExists(ds, fs, o) /\ PathIsFile(fs, o)

\* if output_path.exists() && output_path.is_dir()
OutputIsDir(ds, fs, o) == PathExists(ds, fs, o) /\ PathIsDir(ds, o)

\* The spawn error mapped to the error of a failed conversion.
LaunchError_AsConversionFailed(errno) == ConversionFailed(NoCode)

\* Command::status()? when the executable cannot be started.
LaunchError(errno) == IoError(errno)

\* Any reported exit code taken for success.
Success_AnyCode(code) == code # NoCode

\* ExitStatus::success
Success(code) == code = 0

\* with_extension("pdf") left out.
GeneratedPdf_NoExtension(in, o) == Join(Parent(o), StemOf(Last(in.comps)))

\* output_dir.join(input_path.file_stem()?).with_extension("pdf")
GeneratedPdf(in, o) == WithExtension(Join(Parent(o), StemOf(Last(in.comps))), "pdf")

\* if generated_pdf != output_path
NeedsRename(gen, o) == gen # o

\* Where soffice --convert-to pdf --outdir <dir> <input> writes: the input's
\* name with its extension replaced by pdf, in <dir>.
SofficeOutput(in, dir) == Join(dir, Append(StemOf(Last(in.comps)), "pdf"))

\* ------------------------------------------------------------- state
\* pc[p]: the statement call p is at.  result[p]: what it returned.
\* status[p]: the exit status its converter run reported.  wrote[p]: whether
\* that run wrote its PDF.  created[p]: the directories the call made.
\* trace[p]: the file-system checks and operations the call has made and the
\* converter runs it has started, in order.  dirs0/files0: the file system
\* when the calls were made.
Returned(p) == pc[p] = "return"

Return(p, r) ==
    /\ pc' = [pc EXCEPT ![p] = "return"]
    /\ result' = [result EXCEPT ![p] = r]

Goto(p, label) ==
    /\ pc' = [pc EXCEPT ![p] = label]
    /\ UNCHANGED result

Log(p, event) == trace' = [trace EXCEPT ![p] = Append(@, event)]

\* lib.rs 63-67
CheckInputExists(p) ==
    /\ pc[p] = "input_exists"
    /\ Log(p, "input_path.exists")
    /\ IF InputMissing(dirs, files, input_path[p])
       THEN Return(p, InputNotFound)
       ELSE Goto(p, "input_is_file")
    /\ UNCHANGED <<dirs, files, dirs0, files0, input_path, output_path,
                   status, wrote, created>>

\* lib.rs 68-72
CheckInputIsFile(p) ==
    /\ pc[p] = "input_is_file"
    /\ Log(p, "input_path.is_file")
    /\ IF InputNotFile(dirs, files, input_path[p])
       THEN Return(p, InputNotAFile)
       ELSE Goto(p, "output_is_dir")
    /\ UNCHANGED <<dirs, files, dirs0, files0, input_path, output_path,
                   status, wrote, created>>

\* lib.rs 74-76
CheckOutputIsDir(p) ==
    /\ pc[p] = "output_is_dir"
    /\ Log(p, "output_path.is_dir")
    /\ IF OutputIsDir(dirs, files, output_path[p])
       THEN Return(p, OutputIsDirectory)
       ELSE Goto(p, "output_dir")
    /\ UNCHANGED <<dirs, files, dirs0, files0, input_path, output_path,
                   status, wrote, created>>

\* lib.rs 78-81: output_dir = output_path.parent()?, create_dir_all(output_dir)?
CreateOutputDir(p) ==
    /\ pc[p] = "output_dir"
    /\ IF ~HasParent(output_path[p])
       THEN /\ Log(p, "output_path.parent")
            /\ Return(p, InvalidOutputPath)
            /\ UNCHANGED <<dirs, created>>
       ELSE LET output_dir == Parent(output_path[p])
                r == Resolve(output_dir)
            IN  /\ trace' = [trace EXCEPT
                        ![p] = @ \o <<"output_path.parent", "create_dir_all">>]
                /\ IF IsEmptyPath(output_dir)
                   THEN /\ Goto(p, "spawn")
                        /\ UNCHANGED <<dirs, created>>
                   ELSE IF BlockedByFile(files, r)
                   THEN /\ Return(p, IoError(IF r \in DOMAIN files
                                             THEN "EEXIST" ELSE "ENOTDIR"))
                        /\ UNCHANGED <<dirs, created>>
                   ELSE \E m \in 0..Len(r) :
                          \* a mkdir of a missing directory may be refused
                          /\ m < Len(r) => SubSeq(r, 1, m + 1) \notin dirs
                          /\ dirs' = IF m = Len(r) THEN CreateDirAll(dirs, r)
                                     ELSE CreateDirPartial(dirs, r, m)
                          /\ created' = [created EXCEPT ![p] = @ \cup (dirs' \ dirs)]
                          /\ IF m = Len(r)
                             THEN Goto(p, "spawn")
                             ELSE Return(p, IoError("EACCES"))
    /\ UNCHANGED <<files, dirs0, files0, input_path, output_path, status, wrote>>

\* lib.rs 83-92: the argument list, then the start of soffice
Spawn(p) ==
    /\ pc[p] = "spawn"
    /\ IF ~IsUtf8(Parent(output_path[p]))
       THEN Return(p, InvalidOutputDirectory) /\ UNCHANGED trace
       ELSE IF ~IsUtf8(input_path[p])
       THEN Return(p, InvalidInputPath) /\ UNCHANGED trace
       ELSE \E launch \in {"", "ENOENT", "EACCES"} :
              IF launch = ""
              THEN /\ Goto(p, "status")
                   /\ trace' = [trace EXCEPT ![p] = @ \o <<"Command::status", "soffice">>]
              ELSE /\ Return(p, LaunchError(launch))
                   /\ Log(p, "Command::status")
    /\ UNCHANGED <<dirs, files, dirs0, files0, input_path, output_path,
                   status, wrote, created>>

\* lib.rs 92-100: soffice runs to its end, status() returns its exit status
WaitStatus(p) ==
    /\ pc[p] = "status"
    /\ \E code \in ExitStatuses, w \in BOOLEAN :
         LET target == SofficeOutput(input_path[p], Parent(output_path[p]))
             rt == Resolve(target)
         IN  /\ w => /\ Front(rt) \in dirs
                     /\ rt \notin dirs
             /\ files' = IF w
                         THEN [q \in DOMAIN files \cup {rt} |->
                                 IF q = rt THEN Pdf(p) ELSE files[q]]
                         ELSE files
             /\ wrote' = [wrote EXCEPT ![p] = w]
             /\ status' = [status EXCEPT ![p] = code]
             /\ IF Success(code)
                THEN Goto(p, "generated_pdf")
                ELSE Return(p, ConversionFailed(code))
    /\ UNCHANGED <<dirs, dirs0, files0, input_path, output_path, created, trace>>

\* lib.rs 102-112
CheckGenerated(p) ==
    /\ pc[p] = "generated_pdf"
    /\ IF ~HasFileName(input_path[p])
       THEN Return(p, NoStem) /\ UNCHANGED trace
       ELSE /\ Log(p, "generated_pdf.exists")
            /\ IF PathExists(dirs, files,
                             GeneratedPdf(input_path[p], output_path[p]))
               THEN Goto(p, "rename")
               ELSE Return(p, OutputNotProduced)
    /\ UNCHANGED <<dirs, files, dirs0, files0, input_path, output_path,
                   status, wrote, created>>

\* lib.rs 114-118
RenameGenerated(p) ==
    /\ pc[p] = "rename"
    /\ LET gen == GeneratedPdf(input_path[p], output_path[p])
           o == output_path[p]
           errno == RenameErrno(dirs, files, gen, o)
       IN  IF ~NeedsRename(gen, o)
           THEN /\ Return(p, Ok)
                /\ UNCHANGED <<dirs, files, trace>>
           ELSE /\ Log(p, "rename")
                /\ IF errno # ""
                   THEN /\ Return(p, IoError(errno))
                        /\ UNCHANGED <<dirs, files>>
                   ELSE \E refused \in BOOLEAN :
                          IF refused
                          THEN /\ Return(p, IoError("EACCES"))
                               /\ UNCHANGED <<dirs, files>>
                          ELSE /\ Return(p, Ok)
                               /\ files' = RenameFiles(dirs, files, gen, o)
                               /\ dirs' = RenameDirs(dirs, files, gen, o)
    /\ UNCHANGED <<dirs0, files0, input_path, output_path, status, wrote, created>>

docx_to_pdf(p) ==
    \/ CheckInputExists(p)
    \/ CheckInputIsFile(p)
    \/ CheckOutputIsDir(p)
    \/ CreateOutputDir(p)
    \/ Spawn(p)
    \/ WaitStatus(p)
    \/ CheckGenerated(p)
    \/ RenameGenerated(p)

Next == \E p \in Procs : docx_to_pdf(p)

\* ------------------------------------------------------------- initial states
\* A file system around the paths of a call: any of them may be missing,
\* a regular file or a directory.
Base == {<<>>, Cwd}

Around(in, o) ==
    {Resolve(q) : q \in {x \in {in, o, Parent(o), GeneratedPdf(in, o),
                                SofficeOutput(in, Parent(o))} : ~IsEmptyPath(x)}}
        \ Base

WellFormed(ds, fs) ==
    /\ \A d \in ds : Prefixes(d) \subseteq ds
    /\ \A f \in fs : f \notin ds /\ Front(f) \in ds

Content(f, ins) == IF f \in ins THEN Docx ELSE Stale

InitFs(cands, ins, given) ==
    \E ds \in SUBSET cands, fs \in SUBSET cands :
        /\ WellFormed(Base \cup ds, fs \cup given)
        /\ dirs = Base \cup ds
        /\ files = [f \in fs \cup given |-> Content(f, ins)]
        /\ dirs0 = dirs
        /\ files0 = files

InitCall(active) ==
    /\ pc = [p \in Procs |-> IF p \in active THEN "input_exists" ELSE "idle"]
    /\ result = [p \in Procs |-> Pending]
    /\ status = [p \in Procs |-> NoCode]
    /\ wrote = [p \in Procs |-> FALSE]
    /\ created = [p \in Procs |-> {}]
    /\ trace = [p \in Procs |-> <<>>]

\* One call, the other caller never calls.
Init ==
    /\ \E in \in InputPaths, o \in OutputPaths :
         /\ input_path = [p \in Procs |-> in]
         /\ output_path = [p \in Procs |-> o]
         /\ InitFs(Around(in, o), {Resolve(in)}, {})
    /\ InitCall({1})

Spec == Init /\ [][Next]_vars

\* Two callers call at the same time: inputs with the stem "report", outputs
\* in the same directory.
RaceInputs == {Abs(<<D, <<"report", "docx">>>>), Abs(<<D, <<"report">>>>)}

RaceOutputs ==
    {Abs(<<D, out, <<"final", "pdf">>>>), Abs(<<D, out, <<"report", "pdf">>>>),
     Abs(<<D, out, <<"v2", "pdf">>>>)}

InitRace ==
    /\ \E in \in [Procs -> RaceInputs], o \in [Procs -> RaceOutputs] :
         /\ input_path = in
         /\ output_path = o
         /\ InitFs({<<D, out>>}, {Resolve(in[p]) : p \in Procs},
                   {Resolve(in[p]) : p \in Procs})
    /\ InitCall(Procs)

SpecRace == InitRace /\ [][Next]_vars

\* ------------------------------------------------------------- properties
Did(p, event) == \E i \in DOMAIN trace[p] : trace[p][i] = event

Count(p, event) == Cardinality({i \in DOMAIN trace[p] : trace[p][i] = event})

NoWrites(p) ==
    /\ ~Did(p, "create_dir_all")
    /\ ~Did(p, "rename")
    /\ ~Did(p, "Command::status")
    /\ dirs = dirs0
    /\ files = files0

\* The four preconditions, on the file system the call was made on.
InputExists0(p) == PathExists(dirs0, files0, input_path[p])

InputIsFile0(p) == PathIsFile(files0, input_path[p])

OutputIsDir0(p) == PathIsDir(dirs0, output_path[p])

PreconditionsPass(p) ==
    /\ InputExists0(p)
    /\ InputIsFile0(p)
    /\ ~OutputIsDir0(p)
    /\ HasParent(output_path[p])

Checks == <<"input_path.exists", "input_path.is_file", "output_path.is_dir",
            "output_path.parent">>

\* The converter run of call p has ended.
ToolExited(p) == Did(p, "soffice") /\ pc[p] # "status"

\* C1: a call whose input_path does not exist makes no directory, renames
\* nothing and starts no converter, and what it returns is "Input file not
\* found", whatever output_path is.
C1_MissingInput ==
    \A p \in Procs :
        (pc[p] # "idle" /\ ~InputExists0(p)) =>
            /\ NoWrites(p)
            /\ pc[p] \in {"input_exists", "return"}
            /\ Returned(p) => result[p] = InputNotFound

C1_Witness ==
    /\ Returned(1)
    /\ ~InputExists0(1)
    /\ OutputIsDir0(1)
    /\ result[1] = InputNotFound

\* C2: a call whose input is a regular file and whose output_path is an
\* existing directory returns "Output path is a directory" without starting
\* the converter, creating a directory or renaming a file.
C2_OutputIsDirectory ==
    \A p \in Procs :
        (pc[p] # "idle" /\ InputIsFile0(p) /\ OutputIsDir0(p)) =>
            /\ NoWrites(p)
            /\ pc[p] \notin {"output_dir", "spawn", "status", "generated_pdf", "rename"}
            /\ Returned(p) => result[p] = OutputIsDirectory

C2_Witness ==
    /\ Returned(1)
    /\ InputIsFile0(1)
    /\ OutputIsDir0(1)
    /\ output_path[1] = Abs(<<D, out>>)
    /\ result[1] = OutputIsDirectory

\* C3: the checks run in the order input exists, input is a file, output is
\* no directory, output has a parent; the call returns the error of the
\* first check that fails and runs nothing after it.  The root as output
\* fails the third check, never the fourth.
C3_CheckOrder ==
    \A p \in Procs :
        Returned(p) =>
            /\ ~InputExists0(p) =>
                 result[p] = InputNotFound /\ trace[p] = SubSeq(Checks, 1, 1)
            /\ (InputExists0(p) /\ ~InputIsFile0(p)) =>
                 result[p] = InputNotAFile /\ trace[p] = SubSeq(Checks, 1, 2)
            /\ (InputIsFile0(p) /\ OutputIsDir0(p)) =>
                 result[p] = OutputIsDirectory /\ trace[p] = SubSeq(Checks, 1, 3)
            /\ (InputIsFile0(p) /\ ~OutputIsDir0(p) /\ ~HasParent(output_path[p])) =>
                 result[p] = InvalidOutputPath /\ trace[p] = Checks
            /\ PreconditionsPass(p) =>
                 /\ result[p] \notin {InputNotFound, InputNotAFile,
                                     OutputIsDirectory, InvalidOutputPath}
                 /\ Len(trace[p]) > 4
                 /\ SubSeq(trace[p], 1, 4) = Checks
            /\ (InputIsFile0(p) /\ output_path[p] = Abs(<<>>)) =>
                 result[p] = OutputIsDirectory

C3_Witness ==
    /\ Returned(1)
    /\ PathIsDir(dirs0, input_path[1])
    /\ OutputIsDir0(1)
    /\ result[1] = InputNotAFile
    /\ trace[1] = SubSeq(Checks, 1, 2)

\* C4: when the converter ends with a status other than exit code 0, the
\* call returns "Conversion failed with exit code" with exactly the code the
\* process reported (none when it reported none) and has renamed nothing.
C4_ExternalToolFailed ==
    \A p \in Procs :
        (ToolExited(p) /\ status[p] # 0) =>
            /\ PreconditionsPass(p)
            /\ Returned(p)
            /\ result[p] = ConversionFailed(status[p])
            /\ ~Did(p, "rename")

C4_Witness ==
    /\ Returned(1)
    /\ ToolExited(1)
    /\ status[1] = 1
    /\ result[1].exit = 1
    /\ created[1] # {}

\* The converter of call p could not be started.
LaunchFailed(p) == Did(p, "Command::status") /\ ~Did(p, "soffice")

\* C5 as stated: a converter that cannot be started gives the error of a
\* converter that ran and failed.
C5_LaunchIsToolFailure ==
    \A p \in Procs :
        LaunchFailed(p) => result[p].kind = ConversionFailed(NoCode).kind

\* C5, amended: a converter that cannot be started gives the propagated
\* std::io::Error of the spawn, the kind of error a failed create_dir_all or
\* rename gives, with no exit code; nothing is renamed.
C5_LaunchIsIoError ==
    \A p \in Procs :
        LaunchFailed(p) =>
            /\ Returned(p)
            /\ result[p].kind = IoError("").kind
            /\ result[p].os \in {"ENOENT", "EACCES"}
            /\ result[p].exit = NoCode
            /\ ~Did(p, "rename")
            /\ created[p] \subseteq dirs

C5_Witness ==
    /\ LaunchFailed(1)
    /\ Returned(1)
    /\ result[1] = IoError("ENOENT")
    /\ PreconditionsPass(1)

\* <parent of output_path>/<stem>.pdf
ExpectedPdf(p) == SofficeOutput(input_path[p], Parent(output_path[p]))

\* C6: the path the call looks for after a successful converter run is
\* <parent of output_path>/<stem>.pdf, the stem being the input's file name
\* without its extension.
C6_GeneratedIsStemPdf ==
    \A p \in Procs :
        Did(p, "generated_pdf.exists") =>
            GeneratedPdf(input_path[p], output_path[p]) = ExpectedPdf(p)

\* A file or directory was at <stem>.pdf when the call looked for it.
ExpectedPresent(p) == wrote[p] \/ PathExists(dirs0, files0, ExpectedPdf(p))

\* C7: after a converter run that exits 0, the call returns "Generated PDF
\* not found" and renames nothing when nothing is at <stem>.pdf, and does not
\* return that error when the converter wrote <stem>.pdf.
C7_OutputNotProduced ==
    \A p \in Procs :
        (Returned(p) /\ ToolExited(p) /\ status[p] = 0) =>
            /\ ~ExpectedPresent(p) =>
                 result[p] = OutputNotProduced /\ ~Did(p, "rename")
            /\ wrote[p] => result[p] # OutputNotProduced

\* C8: after a converter run that wrote <stem>.pdf, the call renames exactly
\* when that path differs from output_path; a call that returns Ok leaves the
\* PDF of its converter run at output_path and, when the paths differ,
\* nothing at <stem>.pdf.
C8_RenameToOutput ==
    \A p \in Procs :
        (Returned(p) /\ ToolExited(p) /\ wrote[p] /\ result[p] = Ok) =>
            /\ Did(p, "rename") <=> ExpectedPdf(p) # output_path[p]
            /\ PathIsFile(files, output_path[p])
            /\ files[Resolve(output_path[p])] = Pdf(p)
            /\ ExpectedPdf(p) # output_path[p] =>
                 ~PathExists(dirs, files, ExpectedPdf(p))

\* C9: a call starts the converter at most once, and only when the four
\* checks have passed and the parent of output_path exists with all its
\* ancestors; the directories a call made stay whatever happens later.
C9_DirsBeforeTool ==
    \A p \in Procs :
        /\ Count(p, "Command::status") <= 1
        /\ Count(p, "soffice") <= 1
        /\ created[p] \subseteq dirs
        /\ (pc[p] = "spawn" \/ Did(p, "Command::status")) =>
             /\ PreconditionsPass(p)
             /\ SubSeq(trace[p], 1, 5) = Append(Checks, "create_dir_all")
             /\ Prefixes(Resolve(Parent(output_path[p]))) \subseteq dirs

C9_Witness ==
    /\ Returned(1)
    /\ Did(1, "soffice")
    /\ result[1] = OutputNotProduced
    /\ created[1] = {<<D, out>>, <<D, out, sub>>}
    /\ created[1] \subseteq dirs

\* The calls collide: same input stem, same output directory, other file name.
Collide ==
    /\ StemOf(Last(input_path[1].comps)) = StemOf(Last(input_path[2].comps))
    /\ Parent(output_path[1]) = Parent(output_path[2])
    /\ output_path[1] # output_path[2]

BothConverted ==
    \A p \in Procs : Returned(p) /\ ToolExited(p) /\ status[p] = 0 /\ wrote[p]

\* C10: nothing keeps two calls apart.  When two colliding calls have both
\* run their converter to exit code 0 and each run wrote <stem>.pdf, a call
\* can still miss the generated file (on the existence check or on the
\* rename), and only because the other call renamed it away; a file a call
\* leaves at its output_path is the PDF of either run.
C10_RaceOnGenerated ==
    (Collide /\ BothConverted) =>
        \A p \in Procs :
            LET q == CHOOSE x \in Procs : x # p
            IN  /\ result[p] \in {Ok, OutputNotProduced, IoError("ENOENT"),
                                   IoError("EACCES")}
                /\ result[p] \in {OutputNotProduced, IoError("ENOENT")} =>
                     result[q] = Ok /\ Did(q, "rename")
                /\ (result[p] = Ok /\ PathIsFile(files, output_path[p])) =>
                     files[Resolve(output_path[p])] \in {Pdf(1), Pdf(2)}

C10_Witness ==
    /\ Collide
    /\ BothConverted
    /\ result[1] = Ok
    /\ PathIsFile(files, output_path[1])
    /\ files[Resolve(output_path[1])] = Pdf(2)
    /\ result[2] = OutputNotProduced
====
